---- MODULE Spec2Model ----
(***************************************************************************)
(* scikit-qulacs: the parameter bookkeeping of LearningCircuit             *)
(* (skqulacs/circuit/circuit.py) and the parameter-shift training loop of  *)
(* QclClassification (qcl_classification_test.py).                         *)
(*                                                                         *)
(* Angles, inputs and gradients are floats in the program; the model uses  *)
(* small integers for them.  The quantum simulator (qulacs) and the        *)
(* optimizer (scipy) are external: the simulator's analytic gradient is a  *)
(* nondeterministic vector, the optimizer a nondeterministic caller.       *)
(***************************************************************************)
EXTENDS Integers, Sequences, FiniteSets, TLC

\* ------------------------------------------------------------------ bounds
MaxGates == 2       \* gates one LearningCircuit receives
MaxAngle == 5       \* largest angle magnitude an input transform may produce

\* ------------------------------------------------------- enumerated inputs
Axis == {"X", "Y", "Z"}                     \* _Axis
ParamVals == {0}                            \* initial parameters of add_parametric_*
Xs == {<<>>, <<1>>, <<2, 1>>}               \* data vectors x (run's default is the empty list)
InputFuncs == {"x0", "x1"}                  \* InputFunc: lambda x: x[0] (default), lambda x: x[1]
InputFuncsWithParam == {"x0", "theta_plus_x0"} \* InputFuncWithParam: lambda theta, x: x[0] (default), lambda theta, x: theta + x[0]
NoCompanion == -1                           \* companion_theta_pos is None

\* theta vectors offered to a circuit with n learning parameters: one entry
\* short, exact and one entry long, ascending and descending.
Thetas(n) ==
    UNION {{[i \in 1..k |-> i], [i \in 1..k |-> k + 1 - i]} : k \in {n - 1, n, n + 1} \cap Nat}

\* Gradients the simulator may return for a circuit with n parametric gates.
Grads(n) == {[i \in 1..n |-> i], [i \in 1..n |-> 2 * (n + 1 - i)]}

VARIABLES
    circuit,                  \* LearningCircuit._circuit: the angle of every parametric gate, by position
    gate_count,               \* LearningCircuit._circuit: number of gates, parametric or not
    learning_parameter_list,  \* LearningCircuit._learning_parameter_list
    input_parameter_list,     \* LearningCircuit._input_parameter_list
    call                      \* the last call on the circuit: its name, argument, outcome and return value

cvars == <<circuit, gate_count, learning_parameter_list, input_parameter_list, call>>

VARIABLES
    input_state_list,     \* QclClassification.input_state_list
    self_theta,           \* QclClassification.theta
    output_gate,          \* QclClassification.output_gate
    self_y_list,          \* QclClassification.y_list
    self_n_iter,          \* QclClassification.n_iter
    self_maxiter,         \* QclClassification.maxiter
    x_list_normalized,    \* set_input_state: the local x_list_normalized of the last call
    pc,                   \* "idle", or "minimize" while fit is inside scipy's minimize
    xk,                   \* the optimizer's current iterate while fit is running, which becomes result.x
    theta_init,           \* fit: its local theta_init, while fit is running
    qcall,                \* the last call on the classifier
    first_pred            \* the first pred since the input states and the output gate were set

qvars == <<input_state_list, self_theta, output_gate, self_y_list, self_n_iter, self_maxiter,
           x_list_normalized, pc, xk, theta_init, qcall, first_pred>>

vars == <<cvars, qvars>>

\* ---------------------------------------------------------- the dataclasses
_LearningParameter(pos, theta_pos, value, is_input) ==
    [pos |-> pos, theta_pos |-> theta_pos, value |-> value, is_input |-> is_input]

_InputParameter(pos, func, companion_theta_pos) ==
    [pos |-> pos, func |-> func, companion_theta_pos |-> companion_theta_pos]

\* ParametricQuantumCircuit: positions are 0-based in the program, sequences 1-based here.
get_parameter_count(circ) == Len(circ)
set_parameter(circ, pos, angle) == [circ EXCEPT ![pos + 1] = angle]
add_parametric_gate(circ, angle) == Append(circ, angle)

\* What kind of call came before: one that binds inputs, one that updates the
\* learning parameters, or any other.
Kind(op) ==
    CASE op \in {"_set_input", "run", "backprop"} -> "bind"
      [] op = "update_parameters" -> "update"
      [] OTHER -> "other"

\* A record of one call.  prev is the kind of the call before it, and whether it
\* succeeded.
Call(op, arg, err, ret, sim) ==
    [op |-> op, arg |-> arg, err |-> err, ret |-> ret, sim |-> sim,
     prev |-> IF call.err = "ok" THEN Kind(call.op) ELSE "other"]

\* ------------------------------------------------------- update_parameters
\* The loop of update_parameters from the i-th list entry on.  theta[theta_pos]
\* raises IndexError when theta is too short; the entries before it are already
\* written.
RECURSIVE update_parameters_from(_, _, _, _)
update_parameters_from(i, lpl, circ, theta) ==
    IF i > Len(lpl) THEN [lpl |-> lpl, circ |-> circ, err |-> "ok"]
    ELSE LET parameter == lpl[i] IN
         IF parameter.theta_pos + 1 > Len(theta)
         THEN [lpl |-> lpl, circ |-> circ, err |-> "IndexError"]
         ELSE LET parameter_value == theta[parameter.theta_pos + 1] IN
              update_parameters_from(
                  i + 1,
                  [lpl EXCEPT ![i].value = parameter_value],
                  set_parameter(circ, parameter.pos, parameter_value),
                  theta)

\* Mutant: leaves the parameters that are also inputs alone.
update_parameters_skip_input(lpl, circ, theta) ==
    LET r == update_parameters_from(1, lpl, circ, theta) IN
    [lpl |-> [i \in 1..Len(lpl) |-> IF lpl[i].is_input THEN lpl[i] ELSE r.lpl[i]],
     circ |-> [p \in 1..Len(circ) |->
                 IF \E i \in 1..Len(lpl) : lpl[i].pos + 1 = p /\ lpl[i].is_input
                 THEN circ[p] ELSE r.circ[p]],
     err |-> r.err]

\* Mutant: rejects every theta whose length is not the number of learning parameters.
update_parameters_checked(lpl, circ, theta) ==
    IF Len(theta) # Len(lpl)
    THEN [lpl |-> lpl, circ |-> circ, err |-> "ValueError"]
    ELSE update_parameters_from(1, lpl, circ, theta)

\* Mutant: sets the gate angle at theta_pos instead of pos.
update_parameters_by_theta_pos(lpl, circ, theta) ==
    LET r == update_parameters_from(1, lpl, circ, theta)
        n == IF r.err = "ok" THEN Len(lpl) ELSE 0 IN
    [r EXCEPT !.circ = [p \in 1..Len(circ) |->
                           IF \E i \in 1..n : lpl[i].theta_pos + 1 = p
                           THEN theta[p] ELSE circ[p]]]

\* Mutant: updates the cached values but not the gate angles.
update_parameters_cache_only(lpl, circ, theta) ==
    [update_parameters_from(1, lpl, circ, theta) EXCEPT !.circ = circ]

update_parameters(lpl, circ, theta) == update_parameters_from(1, lpl, circ, theta)

\* ----------------------------------------------------------- get_parameters
\* Mutant: reports only the parameters that are not coupled to an input.
get_parameters_uncoupled(lpl) ==
    LET Uncoupled(p) == ~p.is_input
        kept == SelectSeq(lpl, Uncoupled) IN
    [i \in 1..Len(kept) |-> kept[i].value]

get_parameters(lpl) == [i \in 1..Len(lpl) |-> lpl[i].value]

\* ---------------------------------------------------------------- _set_input
\* parameter.func(x) and parameter.func(theta.value, x): x[k] raises IndexError
\* when x is too short.
CallInputFunc(func, x) ==
    CASE func = "x0" -> IF Len(x) >= 1 THEN [err |-> "ok", angle |-> x[1]]
                        ELSE [err |-> "IndexError", angle |-> 0]
      [] func = "x1" -> IF Len(x) >= 2 THEN [err |-> "ok", angle |-> x[2]]
                        ELSE [err |-> "IndexError", angle |-> 0]

CallInputFuncWithParam(func, theta_value, x) ==
    CASE func = "x0" -> IF Len(x) >= 1 THEN [err |-> "ok", angle |-> x[1]]
                        ELSE [err |-> "IndexError", angle |-> 0]
      [] func = "theta_plus_x0" ->
                        IF Len(x) >= 1 THEN [err |-> "ok", angle |-> theta_value + x[1]]
                        ELSE [err |-> "IndexError", angle |-> 0]

RECURSIVE _set_input_from(_, _, _, _, _)
_set_input_from(i, lpl, ipl, circ, x) ==
    IF i > Len(ipl) THEN [lpl |-> lpl, circ |-> circ, err |-> "ok"]
    ELSE LET parameter == ipl[i] IN
         IF parameter.companion_theta_pos = NoCompanion
         THEN LET r == CallInputFunc(parameter.func, x) IN
              IF r.err # "ok" THEN [lpl |-> lpl, circ |-> circ, err |-> r.err]
              ELSE _set_input_from(i + 1, lpl, ipl,
                                   set_parameter(circ, parameter.pos, r.angle), x)
         ELSE LET k == parameter.companion_theta_pos + 1
                  r == CallInputFuncWithParam(parameter.func, lpl[k].value, x) IN
              IF r.err # "ok" THEN [lpl |-> lpl, circ |-> circ, err |-> r.err]
              ELSE _set_input_from(i + 1,
                                   [lpl EXCEPT ![k].value = r.angle], ipl,
                                   set_parameter(circ, parameter.pos, r.angle), x)

\* Mutant: the transform's output is not written back to the companion.
_set_input_no_write_back(lpl, ipl, circ, x) ==
    LET r == _set_input_from(1, lpl, ipl, circ, x) IN [r EXCEPT !.lpl = lpl]

_set_input(lpl, ipl, circ, x) == _set_input_from(1, lpl, ipl, circ, x)

\* ------------------------------------------------------------------ backprop
\* The routing loop of backprop: ans starts as [0] * len(list); ret is the
\* simulator's gradient by gate position.
RECURSIVE backprop_route(_, _, _, _)
backprop_route(i, lpl, ret, ans) ==
    IF i > Len(lpl) THEN ans
    ELSE LET parameter == lpl[i] IN
         IF ~parameter.is_input
         THEN backprop_route(i + 1, lpl, ret,
                             [ans EXCEPT ![parameter.theta_pos + 1] = ret[parameter.pos + 1]])
         ELSE backprop_route(i + 1, lpl, ret, ans)

\* Mutant: reads the simulator's gradient at theta_pos instead of pos.
backprop_ans_by_theta_pos(lpl, ret) ==
    [i \in 1..Len(lpl) |-> IF lpl[i].is_input THEN 0 ELSE ret[i]]

backprop_ans(lpl, ret) == backprop_route(1, lpl, ret, [i \in 1..Len(lpl) |-> 0])

\* --------------------------------------------------------- the add_* family
\* _add_parametric_R_gate_inner: the learning parameter is appended before the
\* axis dispatch; a target outside _Axis raises NotImplementedError after it.
\* Mutant: numbers the learning parameter by the gate position.
_add_parametric_R_gate_inner_pos(lpl, ipl, circ, parameter, target) ==
    LET c == get_parameter_count(circ) IN
    [lpl |-> Append(lpl, _LearningParameter(c, c, parameter, FALSE)), ipl |-> ipl,
     circ |-> add_parametric_gate(circ, parameter), err |-> "ok"]

_add_parametric_R_gate_inner(lpl, ipl, circ, parameter, target) ==
    LET learning_parameter ==
            _LearningParameter(get_parameter_count(circ), Len(lpl), parameter, FALSE)
        lpl2 == Append(lpl, learning_parameter) IN
    IF target \in Axis
    THEN [lpl |-> lpl2, ipl |-> ipl, circ |-> add_parametric_gate(circ, parameter), err |-> "ok"]
    ELSE [lpl |-> lpl2, ipl |-> ipl, circ |-> circ, err |-> "NotImplementedError"]

_add_input_R_gate_inner(lpl, ipl, circ, target, input_func) ==
    LET ipl2 == Append(ipl, _InputParameter(get_parameter_count(circ), input_func, NoCompanion)) IN
    IF target \in Axis
    THEN [lpl |-> lpl, ipl |-> ipl2, circ |-> add_parametric_gate(circ, 0), err |-> "ok"]
    ELSE [lpl |-> lpl, ipl |-> ipl2, circ |-> circ, err |-> "NotImplementedError"]

\* Mutant: the learning parameter is not marked as an input.
_add_parametric_input_R_gate_inner_not_input(lpl, ipl, circ, parameter, target, input_func) ==
    LET pos == get_parameter_count(circ)
        learning_parameter == _LearningParameter(pos, Len(lpl), parameter, FALSE) IN
    [lpl |-> Append(lpl, learning_parameter),
     ipl |-> Append(ipl, _InputParameter(pos, input_func, learning_parameter.theta_pos)),
     circ |-> add_parametric_gate(circ, parameter), err |-> "ok"]

_add_parametric_input_R_gate_inner(lpl, ipl, circ, parameter, target, input_func) ==
    LET pos == get_parameter_count(circ)
        learning_parameter == _LearningParameter(pos, Len(lpl), parameter, TRUE)
        lpl2 == Append(lpl, learning_parameter)
        ipl2 == Append(ipl, _InputParameter(pos, input_func, learning_parameter.theta_pos)) IN
    IF target \in Axis
    THEN [lpl |-> lpl2, ipl |-> ipl2, circ |-> add_parametric_gate(circ, parameter), err |-> "ok"]
    ELSE [lpl |-> lpl2, ipl |-> ipl2, circ |-> circ, err |-> "NotImplementedError"]

\* ------------------------------------------------------------------- actions
\* LearningCircuit.__init__
CInit ==
    /\ circuit = <<>>
    /\ gate_count = 0
    /\ learning_parameter_list = <<>>
    /\ input_parameter_list = <<>>
    /\ call = [op |-> "__init__", arg |-> <<>>, err |-> "ok", ret |-> <<>>,
               sim |-> <<>>, prev |-> "other"]

\* add_gate, add_X_gate, add_Y_gate, add_Z_gate, add_RX_gate, add_RY_gate,
\* add_RZ_gate, add_CNOT_gate, add_H_gate: a gate without a managed parameter.
AddGate ==
    /\ gate_count < MaxGates
    /\ gate_count' = gate_count + 1
    /\ call' = Call("add_gate", <<>>, "ok", <<>>, <<>>)
    /\ UNCHANGED <<circuit, learning_parameter_list, input_parameter_list, qvars>>

\* add_parametric_RX_gate, add_parametric_RY_gate, add_parametric_RZ_gate
AddParametricRGate ==
    /\ gate_count < MaxGates
    /\ \E target \in Axis, parameter \in ParamVals :
         LET r == _add_parametric_R_gate_inner(learning_parameter_list,
                      input_parameter_list, circuit, parameter, target) IN
         /\ learning_parameter_list' = r.lpl
         /\ input_parameter_list' = r.ipl
         /\ circuit' = r.circ
         /\ gate_count' = gate_count + 1
         /\ call' = Call("add_parametric_R_gate", <<>>, r.err, <<>>, <<>>)
         /\ UNCHANGED qvars

\* add_input_RX_gate, add_input_RY_gate, add_input_RZ_gate
AddInputRGate ==
    /\ gate_count < MaxGates
    /\ \E target \in Axis, input_func \in InputFuncs :
         LET r == _add_input_R_gate_inner(learning_parameter_list,
                      input_parameter_list, circuit, target, input_func) IN
         /\ learning_parameter_list' = r.lpl
         /\ input_parameter_list' = r.ipl
         /\ circuit' = r.circ
         /\ gate_count' = gate_count + 1
         /\ call' = Call("add_input_R_gate", <<>>, r.err, <<>>, <<>>)
         /\ UNCHANGED qvars

\* add_parametric_input_RX_gate, add_parametric_input_RY_gate, add_parametric_input_RZ_gate
AddParametricInputRGate ==
    /\ gate_count < MaxGates
    /\ \E target \in Axis, parameter \in ParamVals, input_func \in InputFuncsWithParam :
         LET r == _add_parametric_input_R_gate_inner(learning_parameter_list,
                      input_parameter_list, circuit, parameter, target, input_func) IN
         /\ learning_parameter_list' = r.lpl
         /\ input_parameter_list' = r.ipl
         /\ circuit' = r.circ
         /\ gate_count' = gate_count + 1
         /\ call' = Call("add_parametric_input_R_gate", <<>>, r.err, <<>>, <<>>)
         /\ UNCHANGED qvars

\* Angles stay within the modelled range.
InRange(circ) == \A i \in 1..Len(circ) : circ[i] <= MaxAngle /\ circ[i] >= -MaxAngle

\* update_parameters(theta)
UpdateParameters ==
    \E theta \in Thetas(Len(learning_parameter_list)) :
       LET r == update_parameters(learning_parameter_list, circuit, theta) IN
       /\ learning_parameter_list' = r.lpl
       /\ circuit' = r.circ
       /\ call' = Call("update_parameters", theta, r.err, <<>>, <<>>)
       /\ UNCHANGED <<gate_count, input_parameter_list, qvars>>

\* get_parameters()
GetParameters ==
    /\ call' = Call("get_parameters", <<>>, "ok", get_parameters(learning_parameter_list), <<>>)
    /\ UNCHANGED <<circuit, gate_count, learning_parameter_list, input_parameter_list, qvars>>

\* _set_input(x)
SetInput ==
    \E x \in Xs :
       LET r == _set_input(learning_parameter_list, input_parameter_list, circuit, x) IN
       /\ InRange(r.circ)
       /\ learning_parameter_list' = r.lpl
       /\ circuit' = r.circ
       /\ call' = Call("_set_input", x, r.err, <<>>, <<>>)
       /\ UNCHANGED <<gate_count, input_parameter_list, qvars>>

\* run(x): binds the inputs, then applies the circuit to |0>.  The returned
\* state is determined by the gates and the angles they are executed with; ret
\* holds those angles.
Run ==
    \E x \in Xs :
       LET r == _set_input(learning_parameter_list, input_parameter_list, circuit, x) IN
       /\ InRange(r.circ)
       /\ learning_parameter_list' = r.lpl
       /\ circuit' = r.circ
       /\ call' = Call("run", x, r.err, IF r.err = "ok" THEN r.circ ELSE <<>>, <<>>)
       /\ UNCHANGED <<gate_count, input_parameter_list, qvars>>

\* run_x_no_change()
RunXNoChange ==
    /\ call' = Call("run_x_no_change", <<>>, "ok", circuit, <<>>)
    /\ UNCHANGED <<circuit, gate_count, learning_parameter_list, input_parameter_list, qvars>>

\* backprop(x, obs): ret is what self._circuit.backprop(obs) returns, one entry
\* per parametric gate.
Backprop ==
    \E x \in Xs, ret \in Grads(Len(circuit)) :
       LET r == _set_input(learning_parameter_list, input_parameter_list, circuit, x) IN
       /\ InRange(r.circ)
       /\ learning_parameter_list' = r.lpl
       /\ circuit' = r.circ
       /\ call' = IF r.err = "ok"
                  THEN Call("backprop", x, "ok", backprop_ans(r.lpl, ret), ret)
                  ELSE Call("backprop", x, r.err, <<>>, <<>>)
       /\ UNCHANGED <<gate_count, input_parameter_list, qvars>>

\* ======================================================= QclClassification
\* ------------------------------------------------------------------ bounds
nqubit == 1         \* QclClassification.nqubit
c_depth == 1        \* QclClassification.c_depth
BatchSize == 2      \* samples in x_list
MaxIter == 3        \* largest maxiter handed to fit

\* np.pi / 2., in the model's unit of angle
HalfPi == 1

\* theta has one entry per (depth, qubit, rotation): rand(c_depth, nqubit, 3).flatten()
ParameterCount == c_depth * nqubit * 3

\* ------------------------------------------------------- enumerated inputs
QThetas == {[i \in 1..ParameterCount |-> 0], [i \in 1..ParameterCount |-> i]}
TimeEvols == {1}                          \* the random time-evolution gate
Rows == {<<0, 2>>, <<1, 4>>}              \* feature vectors (2 features) of the training batches
XLists == {[s \in 1..BatchSize |-> IF s = 1 THEN <<0, 2>> ELSE r] : r \in Rows}
YLists == {[s \in 1..BatchSize |-> 2 * s]} \* labels
ScaleVals == {0, 1, 2, 4}                 \* feature values of the batches handed to the scaling
AllXLists == [1..BatchSize -> ScaleVals \X ScaleVals]
MaxIters == {1, MaxIter}

\* f[1] + ... + f[n]
RECURSIVE Sum(_, _)
Sum(f, n) == IF n = 0 THEN 0 ELSE f[n] + Sum(f, n - 1)

\* i * params[i]^2 + ... + n * params[n]^2
RECURSIVE ParamsWeight(_, _)
ParamsWeight(params, i) ==
    IF i > Len(params) THEN 0 ELSE i * params[i] * params[i] + ParamsWeight(params, i + 1)

SetMin(S) == CHOOSE m \in S : \A v \in S : m <= v
SetMax(S) == CHOOSE m \in S : \A v \in S : m >= v

\* ---------------------------------------------------------- min_max_scaling
\* A scaled entry 2 * (v - min) / (max - min) - 1 is kept as the exact fraction
\* <<numerator, denominator>>; <<0, 0>> is the nan that 0 / 0 produces.
Scaled(v, min, max) == <<2 * (v - min) - (max - min), max - min>>

\* Mutant: min and max taken per feature column (axis=0).
min_max_scaling_axis0(x) ==
    [r \in 1..Len(x) |->
        [c \in 1..Len(x[r]) |->
            Scaled(x[r][c], SetMin({x[q][c] : q \in 1..Len(x)}),
                            SetMax({x[q][c] : q \in 1..Len(x)}))]]

\* min_max_scaling(x), axis=None as set_input_state calls it: one min and one
\* max over all entries of the batch.
min_max_scaling(x) ==
    LET entries == {x[r][c] : r \in 1..Len(x), c \in 1..2}
        min == SetMin(entries)
        max == SetMax(entries) IN
    [r \in 1..Len(x) |-> [c \in 1..Len(x[r]) |-> Scaled(x[r][c], min, max)]]

\* -------------------------------------------------------- the quantum states
\* A QuantumState is kept symbolically: the input encoding it was prepared with
\* and the gates applied to it since.
\* create_input_gate(x): qubit i gets RY(arcsin(x[i % 2])) and RZ(arccos(x[i % 2]**2));
\* both angles are determined by the scaled coordinate, which is what is stored.
create_input_gate(x) == [i \in 1..nqubit |-> x[((i - 1) % 2) + 1]]

\* gate.update_quantum_state(st): in place in the program
update_quantum_state(gate, st) == [st EXCEPT !.applied = Append(@, gate)]

\* self.output_gate is None
NoGate == [time_evol |-> 0, params |-> <<>>]

\* softmax([o.get_expectation_value(st) for o in self.obs]): a float vector in
\* the program; here an integer that is determined by the state (its encoding
\* and every gate applied to it), and even so that halves stay integers.
ModelOutput(st) ==
    LET enc(i) == i * (st.enc[i][1] + 3 * st.enc[i][2])
        gate(l) == LET g == st.applied[l] IN
                   l * (g.time_evol + ParamsWeight(g.params, 1)) IN
    2 * (Sum([i \in 1..Len(st.enc) |-> enc(i)], Len(st.enc))
         + Sum([l \in 1..Len(st.applied) |-> gate(l)], Len(st.applied)))

\* set_input_state(x_list): the list of encoded states
set_input_state(x_list) ==
    LET x_n == min_max_scaling(x_list) IN
    [normalized |-> x_n,
     st_list |-> [s \in 1..Len(x_n) |-> [enc |-> create_input_gate(x_n[s]), applied |-> <<>>]]]

\* ------------------------------------------ the methods, on a record `self`
Self == [theta |-> self_theta, output_gate |-> output_gate,
         input_state_list |-> input_state_list, y_list |-> self_y_list]

\* update_output_gate(theta): self.theta is rebound first, then every angle is
\* set; on a missing gate the first set_parameter raises AttributeError.
update_output_gate(self, theta) ==
    IF self.output_gate = NoGate /\ Len(theta) > 0
    THEN [self |-> [self EXCEPT !.theta = theta], err |-> "AttributeError"]
    ELSE [self |-> [self EXCEPT !.theta = theta,
                                !.output_gate.params =
                                    [i \in 1..Len(@) |-> IF i <= Len(theta) THEN theta[i] ELSE @[i]]],
          err |-> "ok"]

\* Mutant: the input states are used without copying (st_list = self.input_state_list).
pred_no_copy(self, theta) ==
    LET u == update_output_gate(self, theta)
        st_list == [s \in 1..Len(self.input_state_list) |->
                       update_quantum_state(u.self.output_gate, self.input_state_list[s])] IN
    IF u.err # "ok" THEN [res |-> <<>>, self |-> u.self, err |-> u.err]
    ELSE IF u.self.output_gate = NoGate /\ Len(self.input_state_list) > 0
    THEN [res |-> <<>>, self |-> u.self, err |-> "AttributeError"]
    ELSE [res |-> [s \in 1..Len(st_list) |-> ModelOutput(st_list[s])],
          self |-> [u.self EXCEPT !.input_state_list = st_list], err |-> "ok"]

\* pred(theta): works on copies of the input states.  On a missing gate
\* update_output_gate raises when theta has an entry; when theta is empty its
\* loop does nothing and self.output_gate.update_quantum_state(st) raises
\* AttributeError for the first state, if there is one.
pred(self, theta) ==
    LET st_list == [s \in 1..Len(self.input_state_list) |-> self.input_state_list[s]]
        u == update_output_gate(self, theta) IN
    IF u.err # "ok" THEN [res |-> <<>>, self |-> u.self, err |-> u.err]
    ELSE IF u.self.output_gate = NoGate /\ Len(st_list) > 0
    THEN [res |-> <<>>, self |-> u.self, err |-> "AttributeError"]
    ELSE [res |-> [s \in 1..Len(st_list) |->
                      ModelOutput(update_quantum_state(u.self.output_gate, st_list[s]))],
          self |-> u.self, err |-> "ok"]

\* log_loss(self.y_list, y_pred): a float in the program; here the squared
\* distance, an integer determined by both.
log_loss(y_list, y_pred) ==
    Sum([s \in 1..Len(y_pred) |-> (y_pred[s] - y_list[s]) * (y_pred[s] - y_list[s])], Len(y_pred))

\* cost_func(theta): self.y_list is read after pred.
cost_func(self, theta) ==
    LET p == pred(self, theta) IN
    IF p.err # "ok" THEN [loss |-> 0, self |-> p.self, err |-> p.err, npred |-> 1]
    ELSE IF self.y_list = <<>>
         THEN [loss |-> 0, self |-> p.self, err |-> "AttributeError", npred |-> 1]
         ELSE [loss |-> log_loss(self.y_list, p.res), self |-> p.self, err |-> "ok", npred |-> 1]

\* Mutant: the shift is added to every coordinate (np.eye(...)[i] left out).
theta_shifted_all(theta, i, sign) ==
    [j \in 1..Len(theta) |-> theta[j] + sign * HalfPi]

\* theta.copy() + np.eye(len(theta))[i] * np.pi / 2. (sign = 1) and
\* theta.copy() - np.eye(len(theta))[i] * np.pi / 2. (sign = -1)
theta_shifted(theta, i, sign) ==
    [j \in 1..Len(theta) |-> IF j = i THEN theta[j] + sign * HalfPi ELSE theta[j]]

\* B_grad(theta).  The list comprehension evaluates pred(theta_plus[i]), then
\* pred(theta_minus[i]), for i = 0, 1, ...; after[i] is the outcome once entry i
\* is done.  theta is what the caller's vector holds when the call returns.
B_grad(self, theta) ==
    LET after[i \in 0..Len(theta)] ==
            IF i = 0
            THEN [grad |-> <<>>, self |-> self, err |-> "ok", npred |-> 0, theta |-> theta]
            ELSE LET acc == after[i - 1]
                     plus == pred(acc.self, theta_shifted(theta, i, 1))
                     minus == pred(plus.self, theta_shifted(theta, i, -1)) IN
                 IF acc.err # "ok" THEN acc
                 ELSE IF plus.err # "ok"
                 THEN [acc EXCEPT !.self = plus.self, !.err = plus.err, !.npred = @ + 1]
                 ELSE IF minus.err # "ok"
                 THEN [acc EXCEPT !.self = minus.self, !.err = minus.err, !.npred = @ + 2]
                 ELSE [acc EXCEPT !.self = minus.self, !.npred = @ + 2,
                                  !.grad = Append(@, [s \in 1..Len(plus.res) |->
                                                         (plus.res[s] - minus.res[s]) \div 2])]
    IN after[Len(theta)]

\* cost_func_grad(theta)
cost_func_grad(self, theta) ==
    LET p == pred(self, theta) IN
    IF p.err # "ok" THEN [grad |-> <<>>, self |-> p.self, err |-> p.err, npred |-> 1]
    ELSE IF self.y_list = <<>>
    THEN [grad |-> <<>>, self |-> p.self, err |-> "AttributeError", npred |-> 1]
    ELSE LET y_minus_t == [s \in 1..Len(p.res) |-> p.res[s] - self.y_list[s]]
             b == B_grad(p.self, theta) IN
         IF b.err # "ok" THEN [grad |-> <<>>, self |-> b.self, err |-> b.err, npred |-> 1 + b.npred]
         ELSE [grad |-> [k \in 1..Len(b.grad) |->
                            Sum([s \in 1..Len(y_minus_t) |-> y_minus_t[s] * b.grad[k][s]],
                                Len(y_minus_t))],
               self |-> b.self, err |-> "ok", npred |-> 1 + b.npred]

\* callbackF(theta): counts the call and evaluates cost_func(theta) only when
\* 10 * n_iter % maxiter == 0.  self.n_iter and self.maxiter exist once fit has
\* set them (maxiter = 0 stands for the missing attributes): before that
\* self.n_iter + 1 raises AttributeError.
callbackF(self, n_iter, maxiter, theta) ==
    IF maxiter = 0
    THEN [self |-> self, n_iter |-> n_iter, err |-> "AttributeError", npred |-> 0]
    ELSE LET n == n_iter + 1
             c == cost_func(self, theta) IN
         IF (10 * n) % maxiter = 0
         THEN [self |-> c.self, n_iter |-> n, err |-> c.err, npred |-> c.npred]
         ELSE [self |-> self, n_iter |-> n, err |-> "ok", npred |-> 0]

\* ------------------------------------------------------------------ actions
\* callbackF calls after which the model stops counting
NIterCap == MaxIter

NoPred == [valid |-> FALSE, theta |-> <<>>, res |-> <<>>, disturbed |-> FALSE]

\* A record of one call: its name, argument and outcome; res, grad: what it
\* returned; npred: how many times it evaluated pred; after: the caller's theta
\* vector when it returned; x, theta_init, theta_opt: what fit returned
\* (result.x, theta_init, theta_opt).
QCall(op, arg, err, res, grad, npred, after) ==
    [op |-> op, arg |-> arg, err |-> err, res |-> res, grad |-> grad, npred |-> npred,
     after |-> after, x |-> <<>>, theta_init |-> <<>>, theta_opt |-> <<>>]

\* QclClassification.__init__
QInit ==
    /\ input_state_list = <<>>
    /\ self_theta = <<>>
    /\ output_gate = NoGate
    /\ self_y_list = <<>>
    /\ self_n_iter = 0
    /\ self_maxiter = 0
    /\ x_list_normalized = <<>>
    /\ pc = "idle"
    /\ xk = <<>>
    /\ theta_init = <<>>
    /\ qcall = QCall("__init__", <<>>, "ok", <<>>, <<>>, 0, <<>>)
    /\ first_pred = NoPred

\* Writes a method's `self` back to the object.
Store(self) ==
    /\ self_theta' = self.theta
    /\ output_gate' = self.output_gate
    /\ input_state_list' = self.input_state_list

\* A call other than the recorded first pred happened.
Disturb == first_pred' = IF first_pred.valid THEN [first_pred EXCEPT !.disturbed = TRUE]
                         ELSE first_pred

\* set_input_state(x_list), with x_list drawn from `batches`
SetInputStateOf(batches) ==
    /\ pc = "idle"
    /\ \E x_list \in batches :
          LET r == set_input_state(x_list) IN
          /\ x_list_normalized' = r.normalized
          /\ input_state_list' = r.st_list
          /\ qcall' = QCall("set_input_state", x_list, "ok", <<>>, <<>>, 0, <<>>)
    /\ first_pred' = NoPred
    /\ UNCHANGED <<self_theta, output_gate, self_y_list, self_n_iter, self_maxiter, pc, xk,
                   theta_init, cvars>>

SetInputState == SetInputStateOf(XLists)

\* set_input_state(x_list) on a newly constructed classifier, on the batches
\* that exercise the scaling
ScaleBatch == qcall.op = "__init__" /\ SetInputStateOf(AllXLists)

\* create_initial_output_gate(): theta and the time-evolution gate are random.
CreateInitialOutputGate ==
    /\ pc = "idle"
    /\ \E theta \in QThetas, time_evol_gate \in TimeEvols :
          /\ self_theta' = theta
          /\ output_gate' = [time_evol |-> time_evol_gate, params |-> theta]
    /\ qcall' = QCall("create_initial_output_gate", <<>>, "ok", <<>>, <<>>, 0, <<>>)
    /\ first_pred' = NoPred
    /\ UNCHANGED <<input_state_list, self_y_list, self_n_iter, self_maxiter, x_list_normalized,
                   pc, xk, theta_init, cvars>>

\* update_output_gate(theta), called directly
UpdateOutputGate ==
    /\ pc = "idle"
    /\ \E theta \in QThetas :
          LET r == update_output_gate(Self, theta) IN
          /\ Store(r.self)
          /\ qcall' = QCall("update_output_gate", theta, r.err, <<>>, <<>>, 0, theta)
    /\ Disturb
    /\ UNCHANGED <<self_y_list, self_n_iter, self_maxiter, x_list_normalized, pc, xk,
                   theta_init, cvars>>

\* pred(theta), with a fresh vector or with the object's own self.theta
Pred ==
    /\ pc = "idle"
    /\ \E theta \in QThetas \cup {self_theta} :
          LET r == pred(Self, theta) IN
          /\ Store(r.self)
          /\ qcall' = QCall("pred", theta, r.err, r.res, <<>>, 1, theta)
          /\ first_pred' =
                IF r.err # "ok" THEN first_pred
                ELSE IF ~first_pred.valid
                     THEN [valid |-> TRUE, theta |-> theta, res |-> r.res, disturbed |-> FALSE]
                     ELSE IF theta # first_pred.theta
                          THEN [first_pred EXCEPT !.disturbed = TRUE]
                          ELSE first_pred
    /\ UNCHANGED <<self_y_list, self_n_iter, self_maxiter, x_list_normalized, pc, xk,
                   theta_init, cvars>>

\* cost_func(theta), called directly or by the optimizer
CostFunc ==
    /\ \E theta \in QThetas :
          LET r == cost_func(Self, theta) IN
          /\ Store(r.self)
          /\ qcall' = QCall("cost_func", theta, r.err, <<r.loss>>, <<>>, r.npred, theta)
    /\ Disturb
    /\ UNCHANGED <<self_y_list, self_n_iter, self_maxiter, x_list_normalized, pc, xk,
                   theta_init, cvars>>

\* B_grad(theta)
BGrad ==
    /\ pc = "idle"
    /\ \E theta \in QThetas :
          LET r == B_grad(Self, theta) IN
          /\ Store(r.self)
          /\ qcall' = QCall("B_grad", theta, r.err, <<>>, r.grad, r.npred, r.theta)
    /\ Disturb
    /\ UNCHANGED <<self_y_list, self_n_iter, self_maxiter, x_list_normalized, pc, xk,
                   theta_init, cvars>>

\* cost_func_grad(theta), called directly or by the optimizer
CostFuncGrad ==
    /\ \E theta \in QThetas :
          LET r == cost_func_grad(Self, theta) IN
          /\ Store(r.self)
          /\ qcall' = QCall("cost_func_grad", theta, r.err, r.grad, <<>>, r.npred, theta)
    /\ Disturb
    /\ UNCHANGED <<self_y_list, self_n_iter, self_maxiter, x_list_normalized, pc, xk,
                   theta_init, cvars>>

\* fit(x_list, y_list, maxiter) up to the call of minimize: the input states,
\* the random output gate, the labels, the counters and the initial cost.
FitBegin ==
    /\ pc = "idle"
    /\ \E x_list \in XLists, y_list \in YLists, maxiter \in MaxIters,
          theta \in QThetas, time_evol_gate \in TimeEvols :
          LET s == set_input_state(x_list)
              self == [theta |-> theta,
                       output_gate |-> [time_evol |-> time_evol_gate, params |-> theta],
                       input_state_list |-> s.st_list, y_list |-> y_list]
              c == cost_func(self, self.theta) IN
          /\ x_list_normalized' = s.normalized
          /\ Store(c.self)
          /\ self_y_list' = y_list
          /\ self_n_iter' = 0
          /\ self_maxiter' = maxiter
          /\ xk' = theta
          /\ theta_init' = theta
          /\ qcall' = QCall("fit_begin", x_list, c.err, <<c.loss>>, <<>>, c.npred, <<>>)
    /\ first_pred' = NoPred
    /\ pc' = "minimize"
    /\ UNCHANGED cvars

\* callbackF(theta), called directly or by the optimizer at the end of one of
\* its iterations; the optimizer's iterate xk is the vector it hands to the
\* callback.  In between the optimizer calls cost_func and cost_func_grad
\* (CostFunc, CostFuncGrad) at the points it tries.
CallbackF ==
    /\ self_n_iter < NIterCap
    /\ \E theta \in QThetas :
          LET r == callbackF(Self, self_n_iter, self_maxiter, theta) IN
          /\ xk' = IF pc = "minimize" /\ r.err = "ok" THEN theta ELSE xk
          /\ self_n_iter' = r.n_iter
          /\ Store(r.self)
          /\ qcall' = QCall("callbackF", theta, r.err, <<>>, <<>>, r.npred, theta)
    /\ Disturb
    /\ UNCHANGED <<self_y_list, self_maxiter, x_list_normalized, pc, theta_init, cvars>>

\* minimize returns result (result.x is the optimizer's last iterate); fit reads
\* theta_opt from self.theta, evaluates the final cost and returns.  The
\* optimizer stops after the gradient at its starting point (already converged)
\* or after an iteration.
FitEnd ==
    /\ pc = "minimize"
    /\ \/ qcall.op = "cost_func_grad" /\ qcall.err = "ok" /\ qcall.arg = xk /\ self_n_iter = 0
       \/ qcall.op = "callbackF" /\ qcall.err = "ok"
    /\ LET theta_opt == self_theta
           c == cost_func(Self, self_theta) IN
       /\ Store(c.self)
       /\ qcall' = [QCall("fit", <<>>, c.err, <<c.loss>>, <<>>, c.npred, <<>>)
                       EXCEPT !.x = xk, !.theta_init = theta_init, !.theta_opt = theta_opt]
       /\ theta_init' = <<>>
       /\ xk' = <<>>
    /\ Disturb
    /\ pc' = "idle"
    /\ UNCHANGED <<self_y_list, self_n_iter, self_maxiter, x_list_normalized, cvars>>

NextQcl ==
    \/ SetInputState
    \/ CreateInitialOutputGate
    \/ UpdateOutputGate
    \/ Pred
    \/ CostFunc
    \/ BGrad
    \/ CostFuncGrad
    \/ FitBegin
    \/ CallbackF
    \/ FitEnd


Init == CInit /\ QInit

Next ==
    \/ AddGate
    \/ AddParametricRGate
    \/ AddInputRGate
    \/ AddParametricInputRGate
    \/ UpdateParameters
    \/ GetParameters
    \/ SetInput
    \/ Run
    \/ RunXNoChange
    \/ Backprop

Spec == Init /\ [][Next]_vars

SpecQcl == Init /\ [][NextQcl]_vars

NextScaling == ScaleBatch

SpecScaling == Init /\ [][NextScaling]_vars

\* ---------------------------------------------------------------- claims
LearningCount == Len(learning_parameter_list)
Companions == {j \in 1..Len(input_parameter_list) :
                   input_parameter_list[j].companion_theta_pos # NoCompanion}
FullUpdateOf(c, n) == c.op = "update_parameters" /\ c.err = "ok" /\ Len(c.arg) = n

\* C1: get_parameters() called directly after a successful update_parameters(v)
\* with len(v) = number of learning parameters returns exactly v.
C1_GetAfterUpdate ==
    [][(FullUpdateOf(call, LearningCount) /\ call'.op = "get_parameters") => call'.ret = call.arg]_vars

\* C1 witness: get_parameters right after an update returned <<2, 1>>, with a
\* companion-coupled parameter among the two.
C1_Witness ==
    /\ call.op = "get_parameters" /\ call.prev = "update"
    /\ call.ret = <<2, 1>>
    /\ \E i \in 1..LearningCount : learning_parameter_list[i].is_input

\* C2: the k-th entry of the learning-parameter list has theta_pos = k (0-based),
\* so the theta_pos values are exactly 0..learningCount-1 without gap or duplicate.
C2_ThetaPosContiguous ==
    /\ \A k \in 1..LearningCount : learning_parameter_list[k].theta_pos = k - 1
    /\ {learning_parameter_list[k].theta_pos : k \in 1..LearningCount} = 0..(LearningCount - 1)

\* C2 witness: a full circuit in which a learning parameter's gate position
\* differs from its theta_pos (an input gate was added before it).
C2_Witness ==
    /\ gate_count = MaxGates
    /\ input_parameter_list # <<>>
    /\ \E k \in 1..LearningCount :
          learning_parameter_list[k].pos # learning_parameter_list[k].theta_pos

\* C3: binding inputs a second time (run or _set_input with x2, after a first
\* binding) leaves every companion's cached value, and the gate angle at its
\* position, equal to func(value after the first binding, x2).
C3_SecondBinding ==
    [][(/\ call.op \in {"run", "_set_input"} /\ call.err = "ok"
        /\ call'.op \in {"run", "_set_input"} /\ call'.err = "ok")
       => \A j \in Companions :
             LET p == input_parameter_list[j]
                 k == p.companion_theta_pos + 1
                 angle == CallInputFuncWithParam(p.func,
                              learning_parameter_list[k].value, call'.arg).angle IN
             /\ learning_parameter_list'[k].value = angle
             /\ circuit'[p.pos + 1] = angle]_vars

\* C3 witness: after two bindings a companion with func = theta + x[0] holds 3
\* (0 + 1 + 2), which is neither its initial parameter nor x[0].
C3_Witness ==
    /\ call.op \in {"run", "_set_input"} /\ call.err = "ok" /\ call.prev = "bind"
    /\ \E j \in Companions :
          LET p == input_parameter_list[j] IN
          /\ p.func = "theta_plus_x0"
          /\ learning_parameter_list[p.companion_theta_pos + 1].value = 3
          /\ circuit[p.pos + 1] = 3

\* C4: bind first and update_parameters(theta) afterwards: every learning
\* parameter, companions included, has value and gate angle theta[theta_pos], and
\* a following run_x_no_change() executes with them.  update_parameters(theta)
\* first and run(x) afterwards: a companion's gate executes with func(theta[k], x).
C4_BindThenUpdate ==
    [][/\ (Kind(call.op) = "bind" /\ call.err = "ok" /\ FullUpdateOf(call', LearningCount))
          => \A i \in 1..LearningCount :
                LET p == learning_parameter_list'[i] IN
                /\ p.value = call'.arg[p.theta_pos + 1]
                /\ circuit'[p.pos + 1] = call'.arg[p.theta_pos + 1]
       /\ (FullUpdateOf(call, LearningCount) /\ call.prev = "bind" /\ call'.op = "run_x_no_change")
          => \A i \in 1..LearningCount :
                LET p == learning_parameter_list[i] IN
                call'.ret[p.pos + 1] = call.arg[p.theta_pos + 1]
       /\ (FullUpdateOf(call, LearningCount) /\ call'.op = "run" /\ call'.err = "ok")
          => \A j \in Companions :
                LET p == input_parameter_list[j] IN
                call'.ret[p.pos + 1] =
                    CallInputFuncWithParam(p.func, call.arg[p.companion_theta_pos + 1],
                                           call'.arg).angle]_vars

\* C4 witness: update_parameters right after a binding, on a circuit with a
\* companion whose transform depends on theta and a second learning parameter.
C4_Witness ==
    /\ FullUpdateOf(call, LearningCount) /\ call.prev = "bind"
    /\ LearningCount = 2
    /\ \E j \in Companions : input_parameter_list[j].func = "theta_plus_x0"

\* C5 (as claimed): update_parameters(theta) fails whenever len(theta) differs
\* from the number of learning parameters, shorter or longer.
C5_FailsOnAnyMismatch ==
    (call.op = "update_parameters" /\ Len(call.arg) # LearningCount) => call.err # "ok"

\* C5 (amended): update_parameters(theta) fails, with IndexError, exactly when
\* theta is shorter than the number of learning parameters; a longer theta is
\* accepted and its first learningCount entries are used.
C5_FailsIffShorter ==
    call.op = "update_parameters" =>
        /\ (Len(call.arg) < LearningCount) <=> (call.err = "IndexError")
        /\ (Len(call.arg) >= LearningCount) <=> (call.err = "ok")
        /\ call.err = "ok" =>
              \A i \in 1..LearningCount :
                 LET p == learning_parameter_list[i] IN
                 /\ p.value = call.arg[p.theta_pos + 1]
                 /\ circuit[p.pos + 1] = call.arg[p.theta_pos + 1]

\* C5 witness: a theta longer than the list of learning parameters was accepted.
C5_Witness ==
    /\ call.op = "update_parameters" /\ call.err = "ok"
    /\ LearningCount >= 1
    /\ Len(call.arg) > LearningCount

\* C6 (as claimed): backprop returns one entry per learning parameter, and for
\* every learning parameter the entry at its theta_pos is the simulator's
\* gradient at its gate position.
C6_EveryLearningParameterRouted ==
    (call.op = "backprop" /\ call.err = "ok") =>
        /\ Len(call.ret) = LearningCount
        /\ \A i \in 1..LearningCount :
              LET p == learning_parameter_list[i] IN
              call.ret[p.theta_pos + 1] = call.sim[p.pos + 1]

\* C6 (amended): backprop returns one entry per learning parameter; the entry of
\* a learning parameter that is not coupled to an input is the simulator's
\* gradient at its gate position, the entry of a companion-coupled one is 0, and
\* input-only positions reach no entry.
C6_OnlyUncoupledRouted ==
    (call.op = "backprop" /\ call.err = "ok") =>
        /\ Len(call.ret) = LearningCount
        /\ \A i \in 1..LearningCount :
              LET p == learning_parameter_list[i] IN
              call.ret[p.theta_pos + 1] = IF p.is_input THEN 0 ELSE call.sim[p.pos + 1]

\* C6 witness: backprop returned on a circuit with a companion-coupled learning
\* parameter and an uncoupled one, the simulator's gradient being nonzero at both.
C6_Witness ==
    /\ call.op = "backprop" /\ call.err = "ok"
    /\ \E i, j \in 1..LearningCount :
          /\ learning_parameter_list[i].is_input
          /\ ~learning_parameter_list[j].is_input
          /\ call.sim[learning_parameter_list[i].pos + 1] # 0
          /\ call.ret[learning_parameter_list[j].theta_pos + 1] # 0

\* C7: pred(theta) depends only on theta and the captured input states: a pred
\* call with the theta of the first pred since the capture returns the same
\* matrix as that first call, whatever pred, cost_func, B_grad or cost_func_grad
\* calls came in between; and no call applies a gate to a captured input state.
C7_PredDeterministic ==
    /\ (qcall.op = "pred" /\ qcall.err = "ok" /\ first_pred.valid
        /\ qcall.arg = first_pred.theta) => qcall.res = first_pred.res
    /\ \A s \in 1..Len(input_state_list) : input_state_list[s].applied = <<>>

\* C7 witness: pred was called again with the theta of the first pred, after
\* calls with other theta values.
C7_Witness ==
    /\ qcall.op = "pred" /\ qcall.err = "ok"
    /\ first_pred.valid /\ first_pred.disturbed
    /\ qcall.arg = first_pred.theta
    /\ self_y_list # <<>>

\* C8 (as claimed): when fit returns, theta_opt and the angles of the output gate
\* equal result.x, the optimizer's final vector, and the final cost is the cost
\* at that vector.
C8_FitReturnsOptimizerResult ==
    (qcall.op = "fit" /\ qcall.err = "ok") =>
        /\ qcall.theta_opt = qcall.x
        /\ output_gate.params = qcall.x
        /\ qcall.res = <<cost_func(Self, qcall.x).loss>>

\* C9: B_grad(theta) returns one entry per coordinate of theta, entry k being
\* (pred(theta + (pi/2) e_k) - pred(theta - (pi/2) e_k)) / 2; it evaluates pred
\* exactly 2 * len(theta) times and leaves the caller's theta as it was.
C9_ParameterShift ==
    (qcall.op = "B_grad" /\ qcall.err = "ok") =>
        LET theta == qcall.arg
            P == Len(theta)
            plus(k) == [j \in 1..P |-> IF j = k THEN theta[j] + HalfPi ELSE theta[j]]
            minus(k) == [j \in 1..P |-> IF j = k THEN theta[j] - HalfPi ELSE theta[j]] IN
        /\ Len(qcall.grad) = P
        /\ \A k \in 1..P :
              /\ Len(qcall.grad[k]) = Len(input_state_list)
              /\ \A s \in 1..Len(input_state_list) :
                    2 * qcall.grad[k][s] =
                        pred(Self, plus(k)).res[s] - pred(Self, minus(k)).res[s]
        /\ qcall.npred = 2 * P
        /\ qcall.after = theta

\* C9 witness: B_grad returned a nonzero gradient for a theta with distinct entries.
C9_Witness ==
    /\ qcall.op = "B_grad" /\ qcall.err = "ok"
    /\ qcall.arg = [i \in 1..ParameterCount |-> i]
    /\ Len(input_state_list) = BatchSize
    /\ \A k \in 1..ParameterCount : \A s \in 1..BatchSize : qcall.grad[k][s] # 0

\* Exact comparisons of a scaled entry <<numerator, denominator>>.
IsMinusOne(v) == v[2] > 0 /\ v[1] = -v[2]
IsPlusOne(v) == v[2] > 0 /\ v[1] = v[2]
InUnitRange(v) == v[2] > 0 /\ -v[2] <= v[1] /\ v[1] <= v[2]
BatchEntries(x) == {x[r][c] : r \in 1..Len(x), c \in 1..2}
NoConstantColumn(x) == \A c \in 1..2 : \E r, q \in 1..Len(x) : x[r][c] # x[q][c]

\* C10 (as claimed): for a batch in which no column is constant, every column of
\* the scaled batch has minimum exactly -1 and maximum exactly +1.
C10_EveryColumnSpansUnitRange ==
    (qcall.op = "set_input_state" /\ NoConstantColumn(qcall.arg)) =>
        \A c \in 1..2 :
           /\ \A r \in 1..Len(x_list_normalized) : InUnitRange(x_list_normalized[r][c])
           /\ \E r \in 1..Len(x_list_normalized) : IsMinusOne(x_list_normalized[r][c])
           /\ \E r \in 1..Len(x_list_normalized) : IsPlusOne(x_list_normalized[r][c])

\* C10 (amended): the batch is rescaled with one minimum and one maximum taken
\* over all its entries: when the entries are not all equal, every scaled entry
\* lies in [-1, 1], it is exactly -1 precisely where the batch has its overall
\* minimum and exactly +1 precisely where it has its overall maximum.
C10_BatchSpansUnitRange ==
    (qcall.op = "set_input_state" /\ Cardinality(BatchEntries(qcall.arg)) > 1) =>
        /\ Len(x_list_normalized) = Len(qcall.arg)
        /\ \A r \in 1..Len(qcall.arg) : \A c \in 1..2 :
              /\ InUnitRange(x_list_normalized[r][c])
              /\ IsMinusOne(x_list_normalized[r][c])
                    <=> (qcall.arg[r][c] = SetMin(BatchEntries(qcall.arg)))
              /\ IsPlusOne(x_list_normalized[r][c])
                    <=> (qcall.arg[r][c] = SetMax(BatchEntries(qcall.arg)))

\* C10 witness: a batch without a constant column one of whose columns holds
\* neither the overall minimum nor the overall maximum.
C10_Witness ==
    /\ qcall.op = "set_input_state"
    /\ NoConstantColumn(qcall.arg)
    /\ \E c \in 1..2 : \A r \in 1..Len(qcall.arg) :
          /\ qcall.arg[r][c] # SetMin(BatchEntries(qcall.arg))
          /\ qcall.arg[r][c] # SetMax(BatchEntries(qcall.arg))

\* Failed calls: the last call raised.
Failed(c) == c.err # "ok"

\* C11 (as claimed): a call that fails leaves the learning-parameter list, the
\* input-parameter list, every cached value and every gate angle exactly as they
\* were before the call.
C11_FailedCallChangesNothing ==
    [][Failed(call') =>
          /\ learning_parameter_list' = learning_parameter_list
          /\ input_parameter_list' = input_parameter_list
          /\ circuit' = circuit]_vars

\* The fields of the two lists that identify a parameter, without the value.
LearningStructure(lpl) ==
    [i \in 1..Len(lpl) |->
        [pos |-> lpl[i].pos, theta_pos |-> lpl[i].theta_pos, is_input |-> lpl[i].is_input]]
InputOnly == {j \in 1..Len(input_parameter_list) :
                  input_parameter_list[j].companion_theta_pos = NoCompanion}
LearningOnly == {i \in 1..LearningCount : ~learning_parameter_list[i].is_input}

\* C12: update_parameters, get_parameters, run, run_x_no_change and backprop
\* (and _set_input, which run and backprop call) never add, remove or reorder a
\* list entry and never change a pos, theta_pos, is_input, func or
\* companion_theta_pos; update_parameters leaves the angles at input-only
\* positions alone, input binding leaves the value and the angle of learning-only
\* parameters alone, and run_x_no_change and get_parameters change nothing.
C12_StructureFrozen ==
    [][call'.op \in {"update_parameters", "get_parameters", "_set_input", "run",
                     "run_x_no_change", "backprop"} =>
          /\ input_parameter_list' = input_parameter_list
          /\ LearningStructure(learning_parameter_list')
                = LearningStructure(learning_parameter_list)
          /\ Len(circuit') = Len(circuit)
          /\ gate_count' = gate_count
          /\ call'.op = "update_parameters" =>
                \A j \in InputOnly :
                   circuit'[input_parameter_list[j].pos + 1]
                      = circuit[input_parameter_list[j].pos + 1]
          /\ Kind(call'.op) = "bind" =>
                \A i \in LearningOnly :
                   /\ learning_parameter_list'[i] = learning_parameter_list[i]
                   /\ circuit'[learning_parameter_list[i].pos + 1]
                         = circuit[learning_parameter_list[i].pos + 1]
          /\ call'.op \in {"run_x_no_change", "get_parameters"} =>
                /\ circuit' = circuit
                /\ learning_parameter_list' = learning_parameter_list]_vars

\* C12 witness: update_parameters succeeded right after a binding, on a circuit
\* with an input-only gate that is bound to a nonzero angle and stands before a
\* learning-only parameter whose new value differs from that angle.
C12_Witness ==
    /\ FullUpdateOf(call, LearningCount) /\ call.prev = "bind"
    /\ \E j \in InputOnly : \E i \in LearningOnly :
          /\ input_parameter_list[j].pos < learning_parameter_list[i].pos
          /\ circuit[input_parameter_list[j].pos + 1] # 0
          /\ circuit[input_parameter_list[j].pos + 1] # learning_parameter_list[i].value

\* C13: every input parameter with a companion_theta_pos k names an existing
\* learning parameter (k < learningCount) that has the input parameter's gate
\* position and is_input = true; a learning parameter has is_input = true exactly
\* when one input parameter names it as companion; gate positions are distinct
\* across learning parameters and across input parameters (and are positions of
\* parametric gates of the circuit).
C13_CompanionsConsistent ==
    /\ \A j \in Companions :
          LET p == input_parameter_list[j]
              k == p.companion_theta_pos IN
          /\ k >= 0 /\ k < LearningCount
          /\ learning_parameter_list[k + 1].pos = p.pos
          /\ learning_parameter_list[k + 1].is_input
    /\ \A i \in 1..LearningCount :
          learning_parameter_list[i].is_input <=>
             Cardinality({j \in Companions :
                 input_parameter_list[j].companion_theta_pos
                    = learning_parameter_list[i].theta_pos}) = 1
    /\ \A i \in 1..LearningCount :
          Cardinality({j \in Companions :
              input_parameter_list[j].companion_theta_pos
                 = learning_parameter_list[i].theta_pos}) <= 1
    /\ \A i, k \in 1..LearningCount :
          learning_parameter_list[i].pos = learning_parameter_list[k].pos => i = k
    /\ \A j, k \in 1..Len(input_parameter_list) :
          input_parameter_list[j].pos = input_parameter_list[k].pos => j = k
    /\ \A i \in 1..LearningCount :
          learning_parameter_list[i].pos \in 0..(get_parameter_count(circuit) - 1)
    /\ \A j \in 1..Len(input_parameter_list) :
          input_parameter_list[j].pos \in 0..(get_parameter_count(circuit) - 1)

\* C13 witness: a full circuit with a companion-coupled parameter whose gate
\* position differs from its theta_pos, next to an input-only parameter.
C13_Witness ==
    /\ gate_count = MaxGates
    /\ InputOnly # {}
    /\ \E j \in Companions :
          input_parameter_list[j].pos # input_parameter_list[j].companion_theta_pos

\* C14: the cached value of every learning parameter equals the angle stored in
\* the circuit at the parameter's gate position; so what get_parameters() returns
\* is what the circuit holds there, and run_x_no_change() executes with the
\* cached values.
C14_CacheMatchesCircuit ==
    /\ \A i \in 1..LearningCount :
          learning_parameter_list[i].value = circuit[learning_parameter_list[i].pos + 1]
    /\ (call.op = "get_parameters") =>
          /\ Len(call.ret) = LearningCount
          /\ \A i \in 1..LearningCount :
                call.ret[i] = circuit[learning_parameter_list[i].pos + 1]
    /\ (call.op = "run_x_no_change") =>
          \A i \in 1..LearningCount :
             call.ret[learning_parameter_list[i].pos + 1] = learning_parameter_list[i].value

\* C14 witness: run_x_no_change right after an update_parameters, on a circuit
\* with a companion-coupled and a second learning parameter that hold different
\* nonzero values.
C14_Witness ==
    /\ call.op = "run_x_no_change" /\ call.prev = "update"
    /\ LearningCount = 2
    /\ Companions # {}
    /\ learning_parameter_list[1].value # 0
    /\ learning_parameter_list[2].value # 0
    /\ learning_parameter_list[1].value # learning_parameter_list[2].value
====
